---- MODULE Spec2Model ----
(***************************************************************************)
(* Model of django_replicated/failover_router.py:                          *)
(*   FailoverThread / FailoverReplicationRouter        (liveness failover) *)
(*   MasterFailoverThread / MasterFailoverReplicationRouter (promotion)    *)
(*                                                                         *)
(* Spec       : a single caller driving the checker tick by tick, the way  *)
(*              the test-suite does (t.db_is_alive = ...; t.check()).      *)
(* SpecOps    : direct calls of the router's public operations.            *)
(* SpecThread : the checker running as a thread (run loop, one loop        *)
(*              iteration per step) next to a caller of stop_thread().     *)
(***************************************************************************)
EXTENDS Integers, Sequences, FiniteSets, TLC

\* ------------------------------------------------------------------ bounds
\* longest settings.DATABASE_SLAVES a router is built from
MaxSlaves == 2
\* most start_thread() calls made on one router
MaxStarts == 2

\* ------------------------------------------------------------- vocabulary
DEFAULT_DB_ALIAS == "default"
None == "None"
\* an attribute that has not been assigned yet
Unset == "Unset"
SlaveAliases == {"slave1", "slave2"}
Aliases == {DEFAULT_DB_ALIAS} \cup SlaveAliases

FailoverReplicationRouter == "FailoverReplicationRouter"
MasterFailoverReplicationRouter == "MasterFailoverReplicationRouter"
RouterClasses == {FailoverReplicationRouter, MasterFailoverReplicationRouter}

Range(s) == {s[i] : i \in 1..Len(s)}
Count(s, a) == Cardinality({i \in 1..Len(s) : s[i] = a})
\* every duplicate-free list over the set S
ListsOver(S) ==
    UNION {{f \in [1..n -> S] : \A i, j \in 1..n : f[i] = f[j] => i = j} :
           n \in 0..Cardinality(S)}
\* list(set(...)): the elements of S once each, in an order Python does not fix
ListOfSet(S) == {f \in ListsOver(S) : Len(f) = Cardinality(S)}

\* list.append(a)
ListAppend(s, a) == Append(s, a)
\* list.remove(a): drops the first occurrence of a
ListRemove(s, a) ==
    IF a \notin Range(s) THEN s
    ELSE LET k == CHOOSE i \in 1..Len(s) :
                     s[i] = a /\ \A j \in 1..(i - 1) : s[j] # a
         IN [i \in 1..(Len(s) - 1) |-> IF i < k THEN s[i] ELSE s[i + 1]]

\* ---------------------------------------------------------------- state
VARIABLES
    router_cls,          \* class of the router (and of its checker_cls)
    do_check_master,     \* FailoverThread.do_check_master
    master,              \* router.master (_master / MASTER)
    SLAVES,              \* router.SLAVES, the active slaves
    deactivated_slaves,  \* router.deactivated_slaves
    db_is_alive,         \* the liveness probe, alias -> BOOLEAN
    db_is_read_only,     \* the write probe, alias -> BOOLEAN
    last,                \* last call made: [op, arg, ret, again]
    tick_start,          \* registry as it was when the last tick started
    ticks,               \* ticks run with the probes of the return scenario
    pc,                  \* position of the checker thread
    it,                  \* the list iterator's index inside check_slaves
    stop_event,          \* FailoverThread._stop
    caller,              \* position of the thread that builds and stops the router
    failed,              \* aliases whose probe in check_slaves' first loop failed in this tick
    frozen,              \* the probes no longer change from tick to tick
    checkers,            \* every FailoverThread started for the router: [pc, stop]
    router_thread,       \* router.thread: index into checkers, 0 for None
    writer,              \* the registry operation under way: [pc, op, arg, before]
    seen                 \* what a lock-free reader read during that operation

config == <<router_cls, do_check_master>>
registry == <<master, SLAVES, deactivated_slaves>>
probes == <<db_is_alive, db_is_read_only>>
history == <<last, tick_start, ticks>>
thread == <<pc, it, stop_event, caller, failed>>
lifecycle == <<checkers, router_thread>>
reading == <<writer, seen>>
aux == <<frozen, lifecycle, reading>>
vars == <<config, registry, probes, history, thread, aux>>

\* the registry as one value
Registry == [master |-> master, SLAVES |-> SLAVES,
             deactivated_slaves |-> deactivated_slaves]

\* ------------------------------------------------- registry operations
\* deactivate_slave without its "if alias not in self.deactivated_slaves"
deactivate_slave_unguarded(st, alias) ==
    LET s == IF alias \in Range(st.SLAVES)
             THEN ListRemove(st.SLAVES, alias)
             ELSE st.SLAVES
    IN [st EXCEPT !.deactivated_slaves = ListAppend(st.deactivated_slaves, alias),
                  !.SLAVES = s]

deactivate_slave(st, alias) ==
    LET d == IF alias \notin Range(st.deactivated_slaves)
             THEN ListAppend(st.deactivated_slaves, alias)
             ELSE st.deactivated_slaves
        s == IF alias \in Range(st.SLAVES)
             THEN ListRemove(st.SLAVES, alias)
             ELSE st.SLAVES
    IN [st EXCEPT !.deactivated_slaves = d, !.SLAVES = s]

activate_slave_keeps_deactivated(st, alias) ==
    IF alias \notin Range(st.SLAVES)
    THEN [st EXCEPT !.SLAVES = ListAppend(st.SLAVES, alias)]
    ELSE st

activate_slave(st, alias) ==
    LET s == IF alias \notin Range(st.SLAVES)
             THEN ListAppend(st.SLAVES, alias)
             ELSE st.SLAVES
        d == IF alias \in Range(st.deactivated_slaves)
             THEN ListRemove(st.deactivated_slaves, alias)
             ELSE st.deactivated_slaves
    IN [st EXCEPT !.SLAVES = s, !.deactivated_slaves = d]

deactivate_master(st) ==
    IF st.master # None THEN [st EXCEPT !.master = None] ELSE st

activate_master(st) ==
    IF st.master = None THEN [st EXCEPT !.master = DEFAULT_DB_ALIAS] ELSE st

\* MasterFailoverReplicationRouter.master = alias; order is the order that
\* list(set(SLAVES + [was_master])) happens to produce
master_setter(st, alias, order) ==
    IF st.master = alias THEN st
    ELSE [st EXCEPT !.SLAVES = ListRemove(order, alias), !.master = alias]

\* SLAVES.remove(alias) raises ValueError when alias is not in the list
master_setter_raises(st, alias) ==
    st.master # alias /\ alias \notin Range(st.SLAVES)

\* the orders list(set(SLAVES + [was_master])) can produce in state st
SetOrders(st) == ListOfSet(Range(st.SLAVES) \cup {st.master})

\* ------------------------------------------------------ routing queries
\* db_for_write without its check of self.master
db_for_write_unchecked(st, r) == r

\* r is the alias chosen by ReplicationRouter.db_for_write; the method has no
\* return statement after its if, so it answers None on that path too
db_for_write(st, r) ==
    IF r = DEFAULT_DB_ALIAS /\ st.master = None THEN None ELSE None

\* r is the alias chosen by ReplicationRouter.db_for_read
db_for_read(st, r) ==
    IF r = DEFAULT_DB_ALIAS /\ st.master = None THEN None ELSE None

\* ------------------------------------------------------------ the tick
\* "for alias in self.router.SLAVES": the iterator holds an index i into the
\* list object, which deactivate_slave shrinks while the loop runs
RECURSIVE check_active(_, _, _)
check_active(st, i, alive) ==
    IF i > Len(st.SLAVES) THEN st
    ELSE LET alias == st.SLAVES[i]
         IN check_active(IF ~alive[alias] THEN deactivate_slave(st, alias)
                         ELSE st,
                         i + 1, alive)

\* "for alias in self.router.deactivated_slaves", same iterator discipline
RECURSIVE check_deactivated(_, _, _)
check_deactivated(st, i, alive) ==
    IF i > Len(st.deactivated_slaves) THEN st
    ELSE LET alias == st.deactivated_slaves[i]
         IN check_deactivated(IF alive[alias] THEN activate_slave(st, alias)
                              ELSE st,
                              i + 1, alive)

check_slaves_active_only(st, alive) == check_active(st, 1, alive)

check_slaves(st, alive) == check_deactivated(check_active(st, 1, alive), 1, alive)

\* check_master without its else branch: a lost master is never probed again
check_master_no_reactivation(st, alive) ==
    IF st.master # None
    THEN IF ~alive[DEFAULT_DB_ALIAS] THEN deactivate_master(st) ELSE st
    ELSE st

\* FailoverThread.check_master
check_master(st, alive) ==
    IF st.master # None
    THEN IF ~alive[DEFAULT_DB_ALIAS] THEN deactivate_master(st) ELSE st
    ELSE IF alive[DEFAULT_DB_ALIAS] THEN activate_master(st) ELSE st

\* index of the first slave the write probe finds writable, 0 if there is none
FirstWritable(slaves, read_only) ==
    IF \E i \in 1..Len(slaves) : ~read_only[slaves[i]]
    THEN CHOOSE i \in 1..Len(slaves) :
             ~read_only[slaves[i]] /\ \A j \in 1..(i - 1) : read_only[slaves[j]]
    ELSE 0

\* MasterFailoverThread.check_master
promote_master(st, read_only, order) ==
    IF read_only[st.master]
    THEN LET k == FirstWritable(st.SLAVES, read_only)
         IN IF k = 0 THEN st ELSE master_setter(st, st.SLAVES[k], order)
    ELSE st

\* FailoverThread.check, for the checker class that goes with the router
check(st, cls, with_master, alive, read_only, order) ==
    LET s1 == check_slaves(st, alive)
    IN IF ~with_master THEN s1
       ELSE IF cls = MasterFailoverReplicationRouter
            THEN promote_master(s1, read_only, order)
            ELSE check_master(s1, alive)

\* ------------------------------------------------------------- scenarios
\* the probes of test_thread_with_master_choose_cycle's second half:
\* only slave1 answers, only default accepts writes
ReturnProbes(alive, read_only) ==
    /\ alive = [a \in Aliases |-> a = "slave1"]
    /\ read_only = [a \in Aliases |-> a # DEFAULT_DB_ALIAS]

\* slave1 has been promoted over default, default is in the slave pool
Promoted(st) ==
    /\ st.master = "slave1"
    /\ DEFAULT_DB_ALIAS \in Range(st.SLAVES) \cup Range(st.deactivated_slaves)

\* the check() calls the test makes before it asserts the return
ReturnTicks == 3

NoCall == [op |-> "none", arg |-> None, ret |-> None, again |-> FALSE]

\* the record of a call; again tells that the call before it was the same
Call(op, arg, ret) ==
    [op |-> op, arg |-> arg, ret |-> ret,
     again |-> last.op = op /\ last.arg = arg]

\* no registry operation is in progress
NoWrite == [pc |-> "idle", op |-> "none", arg |-> None,
            before |-> [master |-> None, SLAVES |-> <<>>,
                        deactivated_slaves |-> <<>>]]
\* the reader has read nothing
NotSeen == [master |-> None, SLAVES |-> <<>>, deactivated_slaves |-> <<>>,
            during |-> "nothing"]

\* ------------------------------------------------------------------ Init
\* the router after __init__(run_thread=False) with settings.DATABASE_SLAVES
\* any duplicate-free list, and its checker after __init__
InitFields ==
    /\ router_cls \in RouterClasses
    /\ do_check_master \in BOOLEAN
    /\ SLAVES \in {l \in ListsOver(Aliases) : Len(l) <= MaxSlaves}
    /\ deactivated_slaves = <<>>
    /\ db_is_alive = [a \in Aliases |-> TRUE]
    /\ db_is_read_only = [a \in Aliases |-> FALSE]
    /\ last = NoCall
    /\ ticks = 0
    /\ failed = {}
    /\ frozen = FALSE
    /\ checkers = <<>>
    /\ router_thread = 0
    /\ writer = NoWrite
    /\ seen = NotSeen

\* the router when its constructor has returned
InitRouter ==
    /\ InitFields
    /\ master = DEFAULT_DB_ALIAS
    /\ tick_start = Registry

Init ==
    /\ InitRouter
    /\ pc = "unstarted"
    /\ it = 0
    /\ stop_event = FALSE
    /\ caller = "unstarted"

SetRegistry(st) ==
    /\ master' = st.master
    /\ SLAVES' = st.SLAVES
    /\ deactivated_slaves' = st.deactivated_slaves

\* ------------------------------------------------- the caller's actions
\* t.db_is_alive = alive; t.db_is_read_only = read_only; t.check()
\* (the write probe is consulted by MasterFailoverThread.check_master only)
Check ==
    /\ pc = "unstarted"
    /\ \E alive \in [Aliases -> BOOLEAN], read_only \in [Aliases -> BOOLEAN] :
        /\ router_cls = FailoverReplicationRouter \/ ~do_check_master
              => read_only = db_is_read_only
        /\ db_is_alive' = alive
        /\ db_is_read_only' = read_only
        /\ \E order \in SetOrders(check_slaves(Registry, alive)) :
            SetRegistry(check(Registry, router_cls, do_check_master,
                              alive, read_only, order))
        /\ ticks' = IF /\ ReturnProbes(alive, read_only)
                       /\ ticks > 0 \/ Promoted(Registry)
                       /\ ticks <= ReturnTicks
                    THEN ticks + 1 ELSE 0
    /\ last' = [NoCall EXCEPT !.op = "check"]
    /\ tick_start' = Registry
    /\ UNCHANGED <<aux, config, thread>>

\* router.db_for_write(): r is what the base router's db_for_write chose
DbForWrite ==
    /\ pc = "unstarted"
    /\ \E r \in Aliases :
        last' = Call("db_for_write", r, db_for_write(Registry, r))
    /\ UNCHANGED <<aux, config, registry, probes, tick_start, ticks, thread>>

\* router.db_for_read(): r is what the base router's db_for_read chose
DbForRead ==
    /\ pc = "unstarted"
    /\ \E r \in Aliases :
        last' = Call("db_for_read", r, db_for_read(Registry, r))
    /\ UNCHANGED <<aux, config, registry, probes, tick_start, ticks, thread>>

\* router.deactivate_slave(alias)
DeactivateSlave ==
    /\ pc = "unstarted"
    /\ \E alias \in Aliases :
        /\ SetRegistry(deactivate_slave(Registry, alias))
        /\ last' = Call("deactivate_slave", alias, None)
    /\ UNCHANGED <<aux, config, probes, tick_start, ticks, thread>>

\* router.activate_slave(alias)
ActivateSlave ==
    /\ pc = "unstarted"
    /\ \E alias \in Aliases :
        /\ SetRegistry(activate_slave(Registry, alias))
        /\ last' = Call("activate_slave", alias, None)
    /\ UNCHANGED <<aux, config, probes, tick_start, ticks, thread>>

\* router.master = alias, through the property setter of the router's class
SetMasterTo(alias, op) ==
    IF router_cls = MasterFailoverReplicationRouter
    THEN \E order \in SetOrders(Registry) :
            /\ SetRegistry(master_setter(Registry, alias, order))
            /\ last' = Call(op, alias, IF master_setter_raises(Registry, alias)
                                        THEN "ValueError" ELSE None)
    ELSE /\ SetRegistry([Registry EXCEPT !.master = alias])
         /\ last' = Call(op, alias, None)

\* router.deactivate_master()
DeactivateMaster ==
    /\ pc = "unstarted"
    /\ IF deactivate_master(Registry) # Registry
       THEN SetMasterTo(None, "deactivate_master")
       ELSE /\ last' = Call("deactivate_master", None, None)
            /\ UNCHANGED registry
    /\ UNCHANGED <<aux, config, probes, tick_start, ticks, thread>>

\* router.activate_master()
ActivateMaster ==
    /\ pc = "unstarted"
    /\ IF activate_master(Registry) # Registry
       THEN SetMasterTo(DEFAULT_DB_ALIAS, "activate_master")
       ELSE /\ last' = Call("activate_master", None, None)
            /\ UNCHANGED registry
    /\ UNCHANGED <<aux, config, probes, tick_start, ticks, thread>>

\* ------------------------------------------------- the checker thread
\* the router inside __init__(run_thread=True), when FailoverThread.start()
\* has been called from FailoverReplicationRouter.__init__: the thread is
\* about to test its loop condition, _master is set, and the subclass has
\* not yet executed self.MASTER = DEFAULT_DB_ALIAS
InitThread ==
    /\ InitFields
    /\ master = IF router_cls = MasterFailoverReplicationRouter
                THEN Unset ELSE DEFAULT_DB_ALIAS
    /\ tick_start = Registry
    /\ pc = "run"
    /\ it = 0
    /\ stop_event = FALSE
    /\ caller = "constructing"

\* the rest of the constructor: FailoverReplicationRouter.__init__ returns,
\* and MasterFailoverReplicationRouter.__init__ then assigns self.MASTER
FinishInit ==
    /\ caller = "constructing"
    /\ caller' = "started"
    /\ master' = IF router_cls = MasterFailoverReplicationRouter
                 THEN DEFAULT_DB_ALIAS ELSE master
    /\ UNCHANGED <<aux, config, SLAVES, deactivated_slaves, probes, history,
                   pc, it, stop_event, failed>>

\* self.db_is_alive(alias) or self.db_is_read_only(alias) raises: nothing in
\* check_slaves, check_master, check or run catches it, so run() ends
ProbeRaises ==
    /\ \/ pc = "check_active" /\ it <= Len(SLAVES)
       \/ pc = "check_deactivated" /\ it <= Len(deactivated_slaves)
       \/ pc = "check_master" /\ master # Unset
    /\ pc' = "probe_error"
    /\ UNCHANGED <<aux, config, registry, probes, history, it, stop_event,
                   caller, failed>>

Run_ignores_stop ==
    /\ pc = "run"
    /\ pc' = "check_active" /\ it' = 1 /\ failed' = {}
    /\ UNCHANGED <<aux, config, registry, probes, history, stop_event, caller>>

\* run(): while not self._stop.isSet()
Run ==
    /\ pc = "run"
    /\ IF stop_event
       THEN pc' = "finished" /\ it' = it /\ failed' = failed
       ELSE pc' = "check_active" /\ it' = 1 /\ failed' = {}
    /\ UNCHANGED <<aux, config, registry, probes, history, stop_event, caller>>

\* one iteration of check_slaves' first loop; the probe answers either way
CheckActiveStep ==
    /\ pc = "check_active"
    /\ IF it > Len(SLAVES)
       THEN pc' = "check_deactivated" /\ it' = 1 /\ UNCHANGED <<registry, failed>>
       ELSE /\ \E alive \in BOOLEAN :
                /\ SetRegistry(IF ~alive
                               THEN deactivate_slave(Registry, SLAVES[it])
                               ELSE Registry)
                /\ failed' = IF ~alive THEN failed \cup {SLAVES[it]} ELSE failed
            /\ it' = it + 1
            /\ pc' = pc
    /\ UNCHANGED <<aux, config, probes, history, stop_event, caller>>

\* one iteration of check_slaves' second loop
CheckDeactivatedStep ==
    /\ pc = "check_deactivated"
    /\ IF it > Len(deactivated_slaves)
       THEN /\ pc' = IF do_check_master THEN "check_master" ELSE "sleep"
            /\ it' = 0
            /\ UNCHANGED registry
       ELSE /\ \E alive \in BOOLEAN :
                SetRegistry(IF alive
                            THEN activate_slave(Registry, deactivated_slaves[it])
                            ELSE Registry)
            /\ it' = it + 1
            /\ pc' = pc
    /\ UNCHANGED <<aux, config, probes, history, stop_event, caller, failed>>

\* check_master() of the checker class that goes with the router
\* reading self.router.MASTER before the constructor has assigned it raises
\* AttributeError, which ends run()
CheckMasterStep ==
    /\ pc = "check_master"
    /\ IF master = Unset
       THEN pc' = "attribute_error" /\ UNCHANGED registry
       ELSE /\ IF router_cls = MasterFailoverReplicationRouter
               THEN \E read_only \in [Aliases -> BOOLEAN],
                       order \in SetOrders(Registry) :
                        SetRegistry(promote_master(Registry, read_only, order))
               ELSE \E alive \in [Aliases -> BOOLEAN] :
                        SetRegistry(check_master(Registry, alive))
            /\ pc' = "sleep"
    /\ UNCHANGED <<aux, config, probes, history, it, stop_event, caller, failed>>

\* time.sleep(self.check_interval)
Sleep ==
    /\ pc = "sleep"
    /\ pc' = "run"
    /\ UNCHANGED <<aux, config, registry, probes, history, it, stop_event, caller, failed>>

\* stop_thread() -> FailoverThread.join(timeout): self._stop.set()
StopThread ==
    /\ caller = "started"
    /\ stop_event' = TRUE
    /\ caller' = "joining"
    /\ UNCHANGED <<aux, config, registry, probes, history, pc, it, failed>>

\* Thread.join(self, timeout=2 * check_interval) returns: the thread has
\* finished, or the timeout has expired wherever the thread is
JoinReturns ==
    /\ caller = "joining"
    /\ caller' = "stopped"
    /\ UNCHANGED <<aux, config, registry, probes, history, pc, it, stop_event, failed>>

NextThread == FinishInit \/ Run \/ CheckActiveStep \/ CheckDeactivatedStep
                 \/ CheckMasterStep \/ ProbeRaises \/ Sleep \/ StopThread
                 \/ JoinReturns

SpecThread == InitThread /\ [][NextThread]_vars

\* the thread's own steps: a started thread is scheduled again and again, and
\* a probe or a sleep that has begun returns
ThreadStep == Run \/ CheckActiveStep \/ CheckDeactivatedStep \/ CheckMasterStep
                 \/ Sleep

SpecThreadFair == SpecThread /\ WF_vars(ThreadStep)

Next == Check

Spec == Init /\ [][Next]_vars

NextOps == DbForWrite \/ DbForRead \/ DeactivateSlave \/ ActivateSlave
              \/ DeactivateMaster \/ ActivateMaster

SpecOps == Init /\ [][NextOps]_vars

\* --------------------------------------------- starting and stopping
\* router.start_thread(force): _start_thread builds a new checker, stores it
\* in router.thread and starts it
StartThread ==
    /\ Len(checkers) < MaxStarts
    /\ \E force \in BOOLEAN :
        IF force \/ SLAVES # <<>> \/ do_check_master
        THEN /\ checkers' = Append(checkers, [pc |-> "run", stop |-> FALSE])
             /\ router_thread' = Len(checkers) + 1
        ELSE UNCHANGED lifecycle
    /\ UNCHANGED <<config, registry, probes, history, thread, frozen, reading>>

\* router.stop_thread(): sets the stop flag of router.thread and waits for it
\* for at most 2 * check_interval
StopThreadCall ==
    /\ router_thread # 0
    /\ checkers' = [checkers EXCEPT ![router_thread].stop = TRUE]
    /\ UNCHANGED <<config, registry, probes, history, thread, frozen,
                   router_thread, reading>>

\* checker i at "while not self._stop.isSet()": leaves the loop, or runs
\* check() with whatever the probes answer
CheckerRun(i) ==
    /\ checkers[i].pc = "run"
    /\ IF checkers[i].stop
       THEN /\ checkers' = [checkers EXCEPT ![i].pc = "finished"]
            /\ UNCHANGED registry
       ELSE /\ checkers' = [checkers EXCEPT ![i].pc = "sleep"]
            /\ \E alive \in [Aliases -> BOOLEAN], read_only \in [Aliases -> BOOLEAN] :
                \E order \in SetOrders(check_slaves(Registry, alive)) :
                    SetRegistry(check(Registry, router_cls, do_check_master,
                                      alive, read_only, order))
    /\ UNCHANGED <<config, probes, history, thread, frozen, router_thread, reading>>

\* checker i in time.sleep(self.check_interval)
CheckerSleep(i) ==
    /\ checkers[i].pc = "sleep"
    /\ checkers' = [checkers EXCEPT ![i].pc = "run"]
    /\ UNCHANGED <<config, registry, probes, history, thread, frozen,
                   router_thread, reading>>

CheckerStep == \E i \in 1..Len(checkers) : CheckerRun(i) \/ CheckerSleep(i)

NextStart == StartThread \/ StopThreadCall \/ CheckerStep

SpecStart == Init /\ [][NextStart]_vars

\* ------------------------------------------- ticks under settled probes
\* ticks whose probe outcomes still change from one tick to the next
CheckFree == ~frozen /\ Check

\* from now on every database answers its probes the same way
Freeze ==
    /\ ~frozen
    /\ pc = "unstarted"
    /\ frozen' = TRUE
    /\ db_is_alive' \in [Aliases -> BOOLEAN]
    /\ last' = NoCall
    /\ UNCHANGED <<config, registry, db_is_read_only, tick_start, ticks, thread,
                   lifecycle, reading>>

\* one tick (FailoverThread.check) under the settled outcomes
CheckSame ==
    /\ frozen
    /\ pc = "unstarted"
    /\ IF router_cls = MasterFailoverReplicationRouter /\ do_check_master
       THEN \E order \in SetOrders(check_slaves(Registry, db_is_alive)) :
                SetRegistry(check(Registry, router_cls, do_check_master,
                                  db_is_alive, db_is_read_only, order))
       ELSE SetRegistry(check(Registry, router_cls, do_check_master,
                              db_is_alive, db_is_read_only, <<>>))
    /\ ticks' = IF /\ ReturnProbes(db_is_alive, db_is_read_only)
                   /\ ticks > 0 \/ Promoted(Registry)
                   /\ ticks <= ReturnTicks
                THEN ticks + 1 ELSE 0
    /\ last' = [NoCall EXCEPT !.op = "check"]
    /\ tick_start' = Registry
    /\ UNCHANGED <<aux, config, probes, thread>>

NextSteady == CheckFree \/ Freeze \/ CheckSame

\* the liveness router, whose checker is not stopped: while a tick would
\* still change something, run() gets to it
InitSteady == Init /\ router_cls = FailoverReplicationRouter

SpecSteady == InitSteady /\ [][NextSteady]_vars /\ WF_vars(CheckSame)

\* ------------------------------------- a reader next to a registry write
\* The checker starts deactivate_slave(alias) for an active slave,
\* activate_slave(alias) for a deactivated one, or router.master = alias for
\* an active slave that is not the master, and executes the first statement
\* of the "with self.rlock" block
BeginWrite ==
    /\ writer.pc = "idle"
    /\ \/ \E alias \in Range(SLAVES) :
            /\ writer' = [pc |-> "second", op |-> "deactivate_slave",
                          arg |-> alias, before |-> Registry]
            /\ deactivated_slaves' =
                   IF alias \notin Range(deactivated_slaves)
                   THEN ListAppend(deactivated_slaves, alias)
                   ELSE deactivated_slaves
            /\ UNCHANGED <<master, SLAVES>>
       \/ \E alias \in Range(deactivated_slaves) :
            /\ writer' = [pc |-> "second", op |-> "activate_slave",
                          arg |-> alias, before |-> Registry]
            /\ SLAVES' = IF alias \notin Range(SLAVES)
                         THEN ListAppend(SLAVES, alias) ELSE SLAVES
            /\ UNCHANGED <<master, deactivated_slaves>>
       \/ /\ router_cls = MasterFailoverReplicationRouter
          /\ \E alias \in Range(SLAVES) \ {master} :
                /\ writer' = [pc |-> "second", op |-> "master_setter",
                              arg |-> alias, before |-> Registry]
                /\ SLAVES' \in SetOrders(Registry)
                /\ UNCHANGED <<master, deactivated_slaves>>
    /\ seen' = NotSeen
    /\ UNCHANGED <<config, probes, history, thread, frozen, lifecycle>>

\* the second statement of the block
WriteSecond ==
    /\ writer.pc = "second"
    /\ \/ /\ writer.op = "deactivate_slave"
          /\ SLAVES' = IF writer.arg \in Range(SLAVES)
                       THEN ListRemove(SLAVES, writer.arg) ELSE SLAVES
          /\ writer' = [writer EXCEPT !.pc = "idle"]
          /\ UNCHANGED <<master, deactivated_slaves>>
       \/ /\ writer.op = "activate_slave"
          /\ deactivated_slaves' =
                 IF writer.arg \in Range(deactivated_slaves)
                 THEN ListRemove(deactivated_slaves, writer.arg)
                 ELSE deactivated_slaves
          /\ writer' = [writer EXCEPT !.pc = "idle"]
          /\ UNCHANGED <<master, SLAVES>>
       \/ /\ writer.op = "master_setter"
          /\ master' = writer.arg
          /\ writer' = [writer EXCEPT !.pc = "third"]
          /\ UNCHANGED <<SLAVES, deactivated_slaves>>
    /\ UNCHANGED <<config, probes, history, thread, frozen, lifecycle, seen>>

\* the setter's self.SLAVES.remove(alias)
WriteThird ==
    /\ writer.pc = "third"
    /\ SLAVES' = ListRemove(SLAVES, writer.arg)
    /\ writer' = [writer EXCEPT !.pc = "idle"]
    /\ UNCHANGED <<config, master, deactivated_slaves, probes, history, thread,
                   frozen, lifecycle, seen>>

\* the routing layer reads master, SLAVES and deactivated_slaves at one
\* instant, without the lock, while the operation is under way
Observe ==
    /\ writer.pc # "idle"
    /\ seen' = [master |-> master, SLAVES |-> SLAVES,
                deactivated_slaves |-> deactivated_slaves,
                during |-> writer.op]
    /\ UNCHANGED <<config, registry, probes, history, thread, frozen, lifecycle,
                   writer>>

NextRead == BeginWrite \/ WriteSecond \/ WriteThird \/ Observe

SpecRead == Init /\ [][NextRead]_vars

\* ================================================================ claims
Ticked == last.op = "check"
Pool == deactivated_slaves \o SLAVES
\* the registry when check_master starts: check_slaves has run on tick_start
AtCheckMaster == check_slaves(tick_start, db_is_alive)

\* C1: at the end of every tick, under either router class and whatever the
\* probes answered, no alias is both in SLAVES and in deactivated_slaves
C1_Disjoint ==
    Ticked => Range(SLAVES) \cap Range(deactivated_slaves) = {}

\* C2: while master is None, db_for_write and db_for_read answer None when
\* the base router chose the default alias
C2_Unavailable ==
    /\ last.op \in {"db_for_write", "db_for_read"}
    /\ master = None
    /\ last.arg = DEFAULT_DB_ALIAS
    => last.ret = None

C2_Witness ==
    /\ last.op = "db_for_write"
    /\ master = None
    /\ last.arg = DEFAULT_DB_ALIAS
    /\ last.ret = None

\* C3: when the base router chose another alias than default, or master is
\* set, db_for_write and db_for_read return the base router's choice
C3_PolicyChoice ==
    /\ last.op \in {"db_for_write", "db_for_read"}
    /\ last.arg # DEFAULT_DB_ALIAS \/ master # None
    => last.ret = last.arg

\* C4: every slave that was active when the tick started and whose liveness
\* probe fails is, when check_slaves has completed, out of SLAVES and in
\* deactivated_slaves
C4_DeadDeactivated ==
    Ticked /\ ~do_check_master =>
        \A a \in Range(tick_start.SLAVES) :
            ~db_is_alive[a] =>
                a \notin Range(SLAVES) /\ a \in Range(deactivated_slaves)

\* C5: every slave that was deactivated when the tick started and whose
\* liveness probe succeeds is, when check_slaves has completed, in SLAVES and
\* out of deactivated_slaves
C5_AliveActivated ==
    Ticked /\ ~do_check_master =>
        \A a \in Range(tick_start.deactivated_slaves) :
            db_is_alive[a] =>
                a \in Range(SLAVES) /\ a \notin Range(deactivated_slaves)

\* C6: with FailoverThread checking the master, after a tick master is None
\* if the default alias failed its liveness probe in that tick and is the
\* default alias if it passed, whatever the slaves' probes answered and
\* whatever master was before
C6_MasterFollowsDefault ==
    Ticked /\ router_cls = FailoverReplicationRouter /\ do_check_master =>
        master = IF db_is_alive[DEFAULT_DB_ALIAS] THEN DEFAULT_DB_ALIAS ELSE None

C6_Witness ==
    /\ Ticked /\ router_cls = FailoverReplicationRouter /\ do_check_master
    /\ tick_start.master = None
    /\ db_is_alive = [a \in Aliases |-> a = DEFAULT_DB_ALIAS]
    /\ master = DEFAULT_DB_ALIAS

\* C7: with MasterFailoverThread checking the master: if the master is
\* read-only and an active slave is writable when check_master runs, then
\* after the tick master is the first writable active slave, it is no longer
\* in SLAVES and the previous master is in the slave pool exactly once;
\* otherwise master is unchanged
C7_Promotion ==
    Ticked /\ router_cls = MasterFailoverReplicationRouter /\ do_check_master =>
        LET st == AtCheckMaster
            k == FirstWritable(st.SLAVES, db_is_read_only)
        IN IF db_is_read_only[st.master] /\ k # 0
           THEN /\ master = st.SLAVES[k]
                /\ master \notin Range(SLAVES)
                /\ Count(Pool, st.master) = 1
           ELSE master = st.master

\* C8: from the state where slave1 was promoted over default, three ticks in
\* which only slave1 answers the liveness probe and only default is writable
\* end with master = default and SLAVES = [slave1]
C8_MasterReturns ==
    ticks = ReturnTicks => master = DEFAULT_DB_ALIAS /\ SLAVES = <<"slave1">>

\* C9: once stop_thread() has returned, the checker thread changes none of
\* master, SLAVES and deactivated_slaves
C9_NoMutationAfterStop ==
    [][caller = "stopped" => UNCHANGED registry]_vars

\* C10: deactivate_slave(a) and activate_slave(a) are idempotent: a second
\* call changes nothing, and after the call a is exactly once in the list it
\* was moved to and not in the other
C10_Idempotent ==
    /\ last.op = "deactivate_slave" =>
        /\ deactivate_slave(Registry, last.arg) = Registry
        /\ Count(deactivated_slaves, last.arg) = 1
        /\ last.arg \notin Range(SLAVES)
    /\ last.op = "activate_slave" =>
        /\ activate_slave(Registry, last.arg) = Registry
        /\ Count(SLAVES, last.arg) = 1
        /\ last.arg \notin Range(deactivated_slaves)

\* deactivate_slave("slave1") has been called twice in a row
C10_Witness ==
    /\ last.op = "deactivate_slave" /\ last.again
    /\ last.arg = "slave1"
    /\ Count(deactivated_slaves, "slave1") = 1
    /\ "slave1" \notin Range(SLAVES)

\* C11: no call of deactivate_slave, activate_slave, deactivate_master,
\* activate_master or of the master setter ends in an error, on either router
C11_NoError ==
    last.ret # "ValueError"

\* the checkers that are in their loop and have not been told to stop
Running == {i \in 1..Len(checkers) :
               checkers[i].pc # "finished" /\ ~checkers[i].stop}

\* C12: whatever start_thread() and stop_thread() calls were made, at most
\* one checker of the router is running
C12_OneChecker ==
    Cardinality(Running) <= 1

\* the registry the reader saw
SeenRegistry == [master |-> seen.master, SLAVES |-> seen.SLAVES,
                 deactivated_slaves |-> seen.deactivated_slaves]

\* the registries the operation under way can leave, as one whole
AfterWrite ==
    IF writer.op = "deactivate_slave"
    THEN {deactivate_slave(writer.before, writer.arg)}
    ELSE IF writer.op = "activate_slave"
    THEN {activate_slave(writer.before, writer.arg)}
    ELSE {master_setter(writer.before, writer.arg, order) :
             order \in SetOrders(writer.before)}

\* C13: what a reader without the lock reads during deactivate_slave,
\* activate_slave or a promotion is the registry as it was before the whole
\* operation or as it is after it
C13_NoTornRead ==
    seen.during # "nothing" =>
        SeenRegistry = writer.before \/ SeenRegistry \in AfterWrite

C15_StaysRunning == pc # "probe_error"

\* C17: an alias whose probe failed in the first loop of check_slaves is in
\* deactivated_slaves and not in SLAVES when the tick of the liveness
\* checker completes
C17_FailedStaysOut ==
    /\ pc = "sleep"
    /\ router_cls = FailoverReplicationRouter \/ ~do_check_master
    => \A a \in failed :
          a \in Range(deactivated_slaves) /\ a \notin Range(SLAVES)

\* C20: no interleaving of the constructor with the first tick lets
\* check_master read the master field before it is assigned
C20_MasterInitialised == pc # "attribute_error"

\* run() has returned or has been ended by an exception
LoopEnded == pc \in {"finished", "probe_error", "attribute_error"}

\* C16: once join() has set the stop flag no tick begins (the tick under way
\* may finish), the run loop eventually ends, and once ended it never runs
\* a tick again
C16_StopsAfterRequest ==
    /\ [][stop_event => ~(pc = "run" /\ pc' = "check_active")]_vars
    /\ stop_event ~> LoopEnded
    /\ [][LoopEnded => LoopEnded']_vars

\* the loop saw the flag and returned
C16_Witness == stop_event /\ pc = "finished"

\* SLAVES after a promotion that keeps insertion order: the previous master
\* joins at the end unless it is already listed, and the new master leaves
InsertionOrder(st, alias) ==
    ListRemove(IF st.master \in Range(st.SLAVES)
               THEN st.SLAVES
               ELSE ListAppend(st.SLAVES, st.master),
               alias)

\* C18: a tick of the promotion checker that changed the master leaves
\* SLAVES in insertion order, so that the next scan for a writable slave
\* meets the candidates in the order in which they were inserted
C18_InsertionOrder ==
    /\ Ticked
    /\ router_cls = MasterFailoverReplicationRouter
    /\ do_check_master
    /\ master # AtCheckMaster.master
    => SLAVES = InsertionOrder(AtCheckMaster, master)

\* every pooled slave is active exactly if its probe succeeds and
\* deactivated exactly if its probe fails
Converged ==
    \A a \in Range(Pool) :
        /\ a \in Range(SLAVES) <=> db_is_alive[a]
        /\ a \in Range(deactivated_slaves) <=> ~db_is_alive[a]

\* C19: liveness router: once the probe outcomes stay fixed and the checker
\* keeps ticking, the registry eventually holds the answering slaves in
\* SLAVES and the failing ones in deactivated_slaves, and stays that way
C19_Converges ==
    /\ (frozen /\ router_cls = FailoverReplicationRouter) ~> Converged
    /\ [][frozen /\ router_cls = FailoverReplicationRouter /\ Converged
             => Converged']_vars

\* a tick under settled outcomes moved a slave and reached the settled
\* registry, with slaves on both sides
C19_Witness ==
    /\ frozen
    /\ router_cls = FailoverReplicationRouter
    /\ Ticked
    /\ tick_start.SLAVES # SLAVES
    /\ SLAVES # <<>> /\ deactivated_slaves # <<>>
    /\ Converged

====
